---- MODULE Spec2Model ----
(***************************************************************************)
(* Model of the integration operation dispatcher: integrationHandler,      *)
(* handleOperation and the eight operation flows, together with the        *)
(* unknown-operation fallback and the error normaliser of the entry point. *)
(* Every request is a small process that advances from one await point of  *)
(* the source to the next.                                                  *)
(***************************************************************************)
EXTENDS Integers, Sequences, FiniteSets, TLC

(***************************************************************************)
(* Bounds of the model.                                                    *)
(***************************************************************************)
MaxAcks == 2
MaxSets == 2

Requests == {"r1", "r2"}

(***************************************************************************)
(* JavaScript values that the dispatcher inspects or serialises.           *)
(***************************************************************************)
Undefined == [t |-> "undefined", v |-> 0]
Null == [t |-> "null", v |-> 0]
NaN == [t |-> "NaN", v |-> 0]
BigInt == [t |-> "bigint", v |-> 1]
Num(n) == [t |-> "number", v |-> n]

\* operand test of the ?? operator
IsNullish(x) == x.t \in {"undefined", "null"}

(***************************************************************************)
(* Requests: headers and body.                                             *)
(***************************************************************************)
Absent == "<absent>"

Operations ==
  {"webhook_received", "register", "unregister", "message_created",
   "action_triggered", "ping", "create_user", "create_conversation"}

OperationHeaders == Operations \cup {"bogus", Absent}
BotIdHeaders == {"bot1", Absent}

IntegrationIdHeaders == {"int1"}

Headers ==
  [operation : OperationHeaders, botId : BotIdHeaders, integrationId : IntegrationIdHeaders]

ChannelNames == {"c1", "c2"}
MessageTypes == {"text", "image"}
MessageIds == {"m1", "m2"}
ActionTypes == {"", "a1", "a2"}

MessagePayloads ==
  [shape : {"message"}, channel : ChannelNames, type : MessageTypes, id : MessageIds]
ActionPayloads ==
  [shape : {"action"}, hasType : {TRUE}, type : ActionTypes]
    \cup {[shape |-> "action", hasType |-> FALSE, type |-> ""]}

\* the payload shape each flow parses the body against
ShapeOf(operation) ==
  CASE operation = "webhook_received" -> "webhook"
    [] operation = "register" -> "register"
    [] operation = "unregister" -> "unregister"
    [] operation = "message_created" -> "message"
    [] operation = "action_triggered" -> "action"
    [] operation = "create_user" -> "createUser"
    [] operation = "create_conversation" -> "createConversation"
    [] OTHER -> "none"

ValidPayloads(operation) ==
  CASE operation = "message_created" -> MessagePayloads
    [] operation = "action_triggered" -> ActionPayloads
    [] operation \in {"ping", "bogus", Absent} -> {[shape |-> "webhook"]}
    [] OTHER -> {[shape |-> ShapeOf(operation)]}

MissingBody == [shape |-> "missing"]
MalformedBody == [shape |-> "malformed"]

Bodies(operation) == {MissingBody, MalformedBody} \cup ValidPayloads(operation)

NoRequest ==
  [headers |-> [operation |-> Absent, botId |-> Absent, integrationId |-> Absent],
   body |-> MissingBody]

(***************************************************************************)
(* Errors.                                                                 *)
(***************************************************************************)
Error(message) ==
  [isApiError |-> FALSE, type |-> "Error", code |-> 0, message |-> message]

RuntimeErrorCode == 400

RuntimeError(message) ==
  [isApiError |-> TRUE, type |-> "Runtime", code |-> RuntimeErrorCode, message |-> message]

InvalidPayloadError(message) ==
  [isApiError |-> TRUE, type |-> "InvalidPayload", code |-> 400, message |-> message]

isApiError(error) == error.isApiError

GenericMessage ==
  <<"An unexpected error occurred in the integration. Bot owners: Check logs for more informations. Integration owners: throw a RuntimeError to return a custom error message instead.">>

\* messages of the errors that handlers throw
HandlerMessages == {<<"secret one">>, <<"secret two">>}

OpaqueErrors == {Error(m) : m \in HandlerMessages}
ApiErrors ==
  [isApiError : {TRUE}, type : {"Runtime"}, code : {400, 429}, message : HandlerMessages]
    \cup [isApiError : {TRUE}, type : {"Forbidden"}, code : {403}, message : HandlerMessages]
    \cup [isApiError : {TRUE}, type : {"Internal"}, code : {500}, message : HandlerMessages]
HandlerErrors == OpaqueErrors \cup ApiErrors

NoError == [isApiError |-> FALSE, type |-> "none", code |-> 0, message |-> <<>>]

(***************************************************************************)
(* Responses.                                                              *)
(***************************************************************************)
NoBody == [k |-> "none"]
TextBody == [k |-> "text", s |-> "handler body"]

ErrorBody(error) ==
  [k |-> "error", code |-> error.code, type |-> error.type, message |-> error.message]

HandlerResponses ==
  [status : {Undefined, Null, Num(0), Num(-1), Num(201)}, body : {NoBody, TextBody}]

\* what a handler whose response is returned may resolve to
ReturnValues == {Undefined, Null} \cup HandlerResponses

IsTruthy(value) == value \notin {Undefined, Null}

NoResult == [status |-> Undefined, body |-> NoBody]

(***************************************************************************)
(* JSON serialisation of an action's result (JSON.stringify / JSON.parse). *)
(***************************************************************************)
OutputValues == {Undefined, Null, Num(1), NaN, BigInt}
MetaKeys == {"k1", "k2"}
MetaValues == {Num(1), Num(2), NaN}

\* JSON.stringify throws a TypeError on a BigInt
CannotSerialize(value) == value.t = "bigint"

\* a property holding undefined is left out of the text
IsOmitted(value) == value.t = "undefined"

\* the JSON text of a value: NaN is written as null
ToJSON(value) == IF value.t = "NaN" THEN Null ELSE value

Stringify(output, meta) ==
  [k |-> "json",
   hasOutput |-> ~IsOmitted(output),
   output |-> IF IsOmitted(output) THEN Undefined ELSE ToJSON(output),
   meta |-> [key \in {x \in DOMAIN meta : ~IsOmitted(meta[x])} |-> ToJSON(meta[key])]]

StringifyThrows(output, meta) ==
  CannotSerialize(output) \/ \E key \in DOMAIN meta : CannotSerialize(meta[key])

\* JSON.parse of a body produced by Stringify
Parse(body) ==
  [output |-> IF body.hasOutput THEN body.output ELSE Undefined, meta |-> body.meta]

\* property access on a parsed object
Get(object, key) == IF key \in DOMAIN object THEN object[key] ELSE Undefined

(***************************************************************************)
(* The action metadata store.                                              *)
(***************************************************************************)
EmptyEntries == [key \in {} |-> Undefined]
NoStore == [created |-> FALSE, entries |-> EmptyEntries]

NewActionMetadataStore == [created |-> TRUE, entries |-> EmptyEntries]

StoreSet(store, key, value) ==
  [store EXCEPT !.entries =
     [x \in DOMAIN store.entries \cup {key} |-> IF x = key THEN value ELSE store.entries[x]]]

StoreToJSON(store) == store.entries

(***************************************************************************)
(* The handler registration surface of an integration.                     *)
(***************************************************************************)
RegisteredChannels == {"c1"}
RegisteredMessageTypes == {"text"}
RegisteredActions == {"", "a1"}

ChannelTables ==
  UNION {[D -> SUBSET RegisteredMessageTypes] : D \in SUBSET RegisteredChannels}

Instances ==
  [unknownOperationHandler : BOOLEAN,
   register : BOOLEAN,
   unregister : BOOLEAN,
   createUser : BOOLEAN,
   createConversation : BOOLEAN,
   channels : ChannelTables,
   actions : SUBSET RegisteredActions]

(***************************************************************************)
(* Collaborators of the dispatcher.                                        *)
(***************************************************************************)
\* extractContext: the mandatory headers give the operation and the tenant
NoContext == [operation |-> Absent, botId |-> Absent, integrationId |-> Absent]

extractContext(headers) ==
  IF headers.operation = Absent \/ headers.botId = Absent
  THEN [ok |-> FALSE, error |-> Error(<<"Missing header">>), value |-> NoContext]
  ELSE [ok |-> TRUE, error |-> NoError,
        value |-> [operation |-> headers.operation, botId |-> headers.botId,
                   integrationId |-> headers.integrationId]]

(***************************************************************************)
(* Tracing headers and the per-request props.  The value of a tracing      *)
(* header is the sequence of its '-' separated fields; a header that the   *)
(* request does not carry is a key that the mapping does not have.         *)
(***************************************************************************)
EmptyString == <<"">>

HasValue_Defined(headers, header) == header \in DOMAIN headers

\* headers[header] is neither undefined nor ''
HasValue(headers, header) == header \in DOMAIN headers /\ headers[header] # EmptyString

TracingAllowList == <<"traceparent", "tracestate", "sentry-trace">>

NoTracingHeaders == [header \in {} |-> EmptyString]

RECURSIVE TracingReduce(_, _, _)
TracingReduce(headers, allowed, acc) ==
  IF allowed = <<>>
  THEN acc
  ELSE LET header == Head(allowed) IN
       TracingReduce(headers, Tail(allowed),
         IF HasValue(headers, header)
         THEN [x \in DOMAIN acc \cup {header} |-> IF x = header THEN headers[header] ELSE acc[x]]
         ELSE acc)

extractTracingHeaders(headers) == TracingReduce(headers, TracingAllowList, NoTracingHeaders)

\* const [, traceId] = (req.headers['traceparent'] || '').split('-')
TraceIdOf(headers) ==
  LET fields == IF HasValue(headers, "traceparent") THEN headers["traceparent"] ELSE EmptyString IN
  IF Len(fields) >= 2 THEN fields[2] ELSE Absent

NoClient == [botId |-> Absent, integrationId |-> Absent, headers |-> NoTracingHeaders]
NoLogger == [traceId |-> Absent]

\* the client and the logger that getServerProps constructs for a request
getServerProps(context, request) ==
  [client |-> [botId |-> context.botId,
               integrationId |-> context.integrationId,
               headers |-> extractTracingHeaders(request.headers)],
   logger |-> [traceId |-> TraceIdOf(request.headers)]]

\* parseBody: decoding a missing or malformed body fails
parseBody(request) ==
  IF request.body.shape \in {"missing", "malformed"}
  THEN [ok |-> FALSE, error |-> Error(<<"Missing body">>)]
  ELSE [ok |-> TRUE, error |-> NoError]

(***************************************************************************)
(* The response and error normaliser of the entry point.                   *)
(***************************************************************************)
EmptySuccess == [status |-> Num(200), body |-> NoBody]

WithDefaultStatus_Falsy(response) ==
  [response EXCEPT !.status = IF IsNullish(@) \/ @ = Num(0) THEN Num(200) ELSE @]

\* { ...response, status: response.status ?? 200 }
WithDefaultStatus(response) ==
  [response EXCEPT !.status = IF IsNullish(@) THEN Num(200) ELSE @]

Normalize_ReturnsNothing(response) ==
  IF IsTruthy(response) THEN WithDefaultStatus(response) ELSE NoResult

\* response ? { ...response, status: response.status ?? 200 } : { status: 200 }
Normalize(response) ==
  IF IsTruthy(response) THEN WithDefaultStatus(response) ELSE EmptySuccess

Wrap_Generic(error) == RuntimeError(GenericMessage)

\* new RuntimeError(error.message, error)
Wrap(error) == RuntimeError(error.message)

GenericError_Internal == [RuntimeError(GenericMessage) EXCEPT !.code = 500]

\* new RuntimeError('An unexpected error occurred in the integration. ...')
GenericError == RuntimeError(GenericMessage)

NormalizeError_Leaky(error) ==
  IF isApiError(error)
  THEN IF error.type = "Runtime" THEN error ELSE Wrap(error)
  ELSE RuntimeError(error.message)

\* the error that the catch block logs and serialises
NormalizeError(error) ==
  IF isApiError(error)
  THEN IF error.type = "Runtime" THEN error ELSE Wrap(error)
  ELSE GenericError

ErrorEnvelope_ServerError(error) ==
  [status |-> Num(500), body |-> ErrorBody(NormalizeError(error))]

ErrorEnvelope(error) ==
  [status |-> Num(NormalizeError(error).code), body |-> ErrorBody(NormalizeError(error))]

(***************************************************************************)
(* State.                                                                  *)
(***************************************************************************)
VARIABLES
  instance,      \* the handler registration surface, fixed at startup
  pc,            \* per request: where its call of the entry point stands
  req,           \* per request: the request given to the entry point
  ctx,           \* per request: the extracted context
  client,        \* per request: the client constructed for it
  logger,        \* per request: the logger constructed for it
  observed,      \* per request: the props its handlers were given
  running,       \* per request: the handler being awaited
  offered,       \* per request: how the unknown-operation fallback settled
  entered,       \* per request: the operation flows entered by handleOperation
  invoked,       \* per request: the handlers invoked so far, in order
  parsed,        \* per request: the payload shapes parseBody was called for
  acks,          \* per request: the arguments of the ack invocations
  updates,       \* per request: the updateMessage calls received by its client
  metadata,      \* per request: the action metadata store
  sets,          \* per request: the metadata.set calls of the action handler
  returned,      \* per request: what the awaited flow handler resolved to
  caught,        \* per request: the error caught by the entry point
  escaped,       \* per request: the error that rejected the entry point's promise
  logs,          \* per request: error-severity writes to the bot-scoped logger
  result         \* per request: the envelope the entry point resolved to

vars ==
  <<instance, pc, req, ctx, client, logger, observed, running, offered, entered, invoked, parsed, acks,
    updates, metadata, sets, returned, caught, escaped, logs, result>>

NoHandler == <<>>
NoReturn == [t |-> "pending", v |-> 0]
Threw == [t |-> "threw", v |-> 0]

Init ==
  /\ instance \in Instances
  /\ pc = [r \in Requests |-> "idle"]
  /\ req = [r \in Requests |-> NoRequest]
  /\ ctx = [r \in Requests |-> NoContext]
  /\ client = [r \in Requests |-> NoClient]
  /\ logger = [r \in Requests |-> NoLogger]
  /\ observed = [r \in Requests |-> {}]
  /\ running = [r \in Requests |-> NoHandler]
  /\ offered = [r \in Requests |-> NoReturn]
  /\ entered = [r \in Requests |-> <<>>]
  /\ invoked = [r \in Requests |-> <<>>]
  /\ parsed = [r \in Requests |-> <<>>]
  /\ acks = [r \in Requests |-> <<>>]
  /\ updates = [r \in Requests |-> <<>>]
  /\ metadata = [r \in Requests |-> NoStore]
  /\ sets = [r \in Requests |-> <<>>]
  /\ returned = [r \in Requests |-> NoReturn]
  /\ caught = [r \in Requests |-> NoError]
  /\ escaped = [r \in Requests |-> NoError]
  /\ logs = [r \in Requests |-> <<>>]
  /\ result = [r \in Requests |-> NoResult]

(***************************************************************************)
(* Outcomes of the try block of integrationHandler.                        *)
(***************************************************************************)
\* the entry point resolves to the given envelope
Returns(r, envelope) ==
  /\ pc' = [pc EXCEPT ![r] = "returned"]
  /\ running' = [running EXCEPT ![r] = NoHandler]
  /\ result' = [result EXCEPT ![r] = envelope]
  /\ UNCHANGED <<observed, invoked, caught, logs>>

\* the catch block: classify, log at error severity, convert to an envelope
Catches_LogsOriginal(r, error) ==
  /\ pc' = [pc EXCEPT ![r] = "returned"]
  /\ running' = [running EXCEPT ![r] = NoHandler]
  /\ caught' = [caught EXCEPT ![r] = error]
  /\ logs' = [logs EXCEPT ![r] = Append(@, error.message)]
  /\ result' = [result EXCEPT ![r] = ErrorEnvelope(error)]
  /\ UNCHANGED <<observed, invoked>>

\* the catch block: normalise the error, log its message for the bot, return its envelope
Catches(r, error) ==
  /\ pc' = [pc EXCEPT ![r] = "returned"]
  /\ running' = [running EXCEPT ![r] = NoHandler]
  /\ caught' = [caught EXCEPT ![r] = error]
  /\ logs' = [logs EXCEPT ![r] = Append(@, NormalizeError(error).message)]
  /\ result' = [result EXCEPT ![r] = ErrorEnvelope(error)]
  /\ UNCHANGED <<observed, invoked>>

PropsPassed_Shared(r) ==
  LET q == CHOOSE x \in Requests : pc[x] # "idle" IN
  [ctx |-> ctx[q], req |-> req[q], client |-> client[q], logger |-> logger[q]]

\* the props of the request, handed to every handler invoked for it
PropsPassed(r) == [ctx |-> ctx[r], req |-> req[r], client |-> client[r], logger |-> logger[r]]

Invokes_Twice(r, handler) ==
  /\ pc' = [pc EXCEPT ![r] = "handler"]
  /\ running' = [running EXCEPT ![r] = handler]
  /\ invoked' = [invoked EXCEPT ![r] = Append(Append(@, handler), handler)]
  /\ observed' = [observed EXCEPT ![r] = @ \cup {PropsPassed(r)}]
  /\ UNCHANGED <<caught, logs, result>>

\* the flow awaits a registered handler
Invokes(r, handler) ==
  /\ pc' = [pc EXCEPT ![r] = "handler"]
  /\ running' = [running EXCEPT ![r] = handler]
  /\ invoked' = [invoked EXCEPT ![r] = Append(@, handler)]
  /\ observed' = [observed EXCEPT ![r] = @ \cup {PropsPassed(r)}]
  /\ UNCHANGED <<caught, logs, result>>

(***************************************************************************)
(* integrationHandler: context extraction, per-request props, and the      *)
(* offer of the request to the unknown-operation fallback.                 *)
(***************************************************************************)
Call(r, inbound) ==
  /\ pc[r] = "idle"
  /\ \E headers \in inbound : \E body \in Bodies(headers.operation) :
       LET request == [headers |-> headers, body |-> body]
           extracted == extractContext(headers)
           props == getServerProps(extracted.value, request) IN
       /\ req' = [req EXCEPT ![r] = request]
       /\ IF ~extracted.ok
          THEN /\ pc' = [pc EXCEPT ![r] = "rejected"]
               /\ escaped' = [escaped EXCEPT ![r] = extracted.error]
               /\ UNCHANGED <<ctx, client, logger, observed, running, invoked>>
          ELSE /\ ctx' = [ctx EXCEPT ![r] = extracted.value]
               /\ client' = [client EXCEPT ![r] = props.client]
               /\ logger' = [logger EXCEPT ![r] = props.logger]
               /\ UNCHANGED escaped
               /\ IF instance.unknownOperationHandler
                  THEN /\ pc' = [pc EXCEPT ![r] = "unknownOperationHandler"]
                       /\ running' = [running EXCEPT ![r] = <<"unknownOperationHandler">>]
                       /\ invoked' = [invoked EXCEPT ![r] = Append(@, <<"unknownOperationHandler">>)]
                       /\ observed' = [observed EXCEPT ![r] =
                            {[ctx |-> extracted.value, req |-> request,
                              client |-> props.client, logger |-> props.logger]}]
                  ELSE /\ pc' = [pc EXCEPT ![r] = "handleOperation"]
                       /\ UNCHANGED <<observed, running, invoked>>
  /\ UNCHANGED <<instance, offered, entered, parsed, acks, updates, metadata, sets, returned, caught, logs, result>>

\* a call of the entry point with a request of the host runtime
integrationHandler(r) == Call(r, Headers)

ShortCircuits_Never(response) == FALSE

\* if (response): a truthy response of the fallback short-circuits the routing
ShortCircuits(response) == IsTruthy(response)

onUnknownOperationHandler_Swallows(r) ==
  /\ pc[r] = "unknownOperationHandler"
  /\ \/ \E response \in ReturnValues :
          /\ offered' = [offered EXCEPT ![r] = response]
          /\ IF ShortCircuits(response)
             THEN Returns(r, WithDefaultStatus(response))
             ELSE /\ pc' = [pc EXCEPT ![r] = "handleOperation"]
                  /\ running' = [running EXCEPT ![r] = NoHandler]
                  /\ UNCHANGED <<observed, invoked, caught, logs, result>>
     \/ /\ offered' = [offered EXCEPT ![r] = Threw]
        /\ pc' = [pc EXCEPT ![r] = "handleOperation"]
        /\ running' = [running EXCEPT ![r] = NoHandler]
        /\ UNCHANGED <<observed, invoked, caught, logs, result>>
  /\ UNCHANGED <<instance, client, logger, entered, req, ctx, parsed, acks, updates, metadata, sets, returned, escaped>>

\* the fallback settles
onUnknownOperationHandler(r) ==
  /\ pc[r] = "unknownOperationHandler"
  /\ \/ \E response \in ReturnValues :
          /\ offered' = [offered EXCEPT ![r] = response]
          /\ IF ShortCircuits(response)
             THEN Returns(r, WithDefaultStatus(response))
             ELSE /\ pc' = [pc EXCEPT ![r] = "handleOperation"]
                  /\ running' = [running EXCEPT ![r] = NoHandler]
                  /\ UNCHANGED <<observed, invoked, caught, logs, result>>
     \/ \E error \in HandlerErrors :
          /\ offered' = [offered EXCEPT ![r] = Threw]
          /\ Catches(r, error)
  /\ UNCHANGED <<instance, client, logger, entered, req, ctx, parsed, acks, updates, metadata, sets, returned, escaped>>

(***************************************************************************)
(* handleOperation: the switch on ctx.operation and the eight flows, each  *)
(* up to the point where it awaits the registered handler.                 *)
(***************************************************************************)
Routes(r, operation) ==
  /\ pc[r] = "handleOperation"
  /\ ctx[r].operation = operation
  /\ entered' = [entered EXCEPT ![r] = Append(@, operation)]

\* a flow that parses the body and then awaits the handler
ParsesThenInvokes(r, handler) ==
  /\ parsed' = [parsed EXCEPT ![r] = Append(@, ShapeOf(ctx[r].operation))]
  /\ IF parseBody(req[r]).ok
     THEN Invokes(r, handler)
     ELSE Catches(r, parseBody(req[r]).error)

OptionalFlow_Required(r, registered, handler) == ParsesThenInvokes(r, handler)

\* a flow whose handler is optional: without it the flow returns nothing
OptionalFlow(r, registered, handler) ==
  IF ~registered
  THEN Returns(r, Normalize(Undefined)) /\ UNCHANGED parsed
  ELSE ParsesThenInvokes(r, handler)

onPing_ParsesBody(r) ==
  /\ Routes(r, "ping")
  /\ parsed' = [parsed EXCEPT ![r] = Append(@, "none")]
  /\ IF parseBody(req[r]).ok
     THEN Returns(r, Normalize(Undefined))
     ELSE Catches(r, parseBody(req[r]).error)
  /\ UNCHANGED <<instance, client, logger, offered, req, ctx, acks, updates, metadata, sets, returned, escaped>>

onPing(r) ==
  /\ Routes(r, "ping")
  /\ Returns(r, Normalize(Undefined))
  /\ UNCHANGED <<instance, client, logger, offered, req, ctx, parsed, acks, updates, metadata, sets, returned, escaped>>

onWebhook(r) ==
  /\ Routes(r, "webhook_received")
  /\ ParsesThenInvokes(r, <<"webhook">>)
  /\ UNCHANGED <<instance, client, logger, offered, req, ctx, acks, updates, metadata, sets, returned, escaped>>

onRegister(r) ==
  /\ Routes(r, "register")
  /\ OptionalFlow(r, instance.register, <<"register">>)
  /\ UNCHANGED <<instance, client, logger, offered, req, ctx, acks, updates, metadata, sets, returned, escaped>>

onUnregister(r) ==
  /\ Routes(r, "unregister")
  /\ OptionalFlow(r, instance.unregister, <<"unregister">>)
  /\ UNCHANGED <<instance, client, logger, offered, req, ctx, acks, updates, metadata, sets, returned, escaped>>

onCreateUser(r) ==
  /\ Routes(r, "create_user")
  /\ OptionalFlow(r, instance.createUser, <<"createUser">>)
  /\ UNCHANGED <<instance, client, logger, offered, req, ctx, acks, updates, metadata, sets, returned, escaped>>

onCreateConversation(r) ==
  /\ Routes(r, "create_conversation")
  /\ OptionalFlow(r, instance.createConversation, <<"createConversation">>)
  /\ UNCHANGED <<instance, client, logger, offered, req, ctx, acks, updates, metadata, sets, returned, escaped>>

HasChannel(channel) == channel \in DOMAIN instance.channels
HasMessageHandler_Unchecked(channel, type) == HasChannel(channel)

HasMessageHandler(channel, type) ==
  HasChannel(channel) /\ type \in instance.channels[channel]

MessageHandler(channel, type) == <<"channels", channel, "messages", type>>

onMessageCreated(r) ==
  /\ Routes(r, "message_created")
  /\ parsed' = [parsed EXCEPT ![r] = Append(@, "message")]
  /\ LET body == req[r].body IN
       IF ~parseBody(req[r]).ok
       THEN Catches(r, parseBody(req[r]).error)
       ELSE IF ~HasChannel(body.channel)
       THEN Catches(r, Error(<<"Channel ", body.channel, " not found">>))
       ELSE IF ~HasMessageHandler(body.channel, body.type)
       THEN Catches(r, Error(<<"Message of type ", body.type, " not found in channel ", body.channel>>))
       ELSE Invokes(r, MessageHandler(body.channel, body.type))
  /\ UNCHANGED <<instance, client, logger, offered, req, ctx, acks, updates, metadata, sets, returned, escaped>>

IsFalsyType_OnlyAbsent(body) == ~body.hasType

\* !type
IsFalsyType(body) == ~body.hasType \/ body.type = ""

HasAction(type) == type \in instance.actions

ActionHandler(type) == <<"actions", type>>

onActionTriggered(r) ==
  /\ Routes(r, "action_triggered")
  /\ parsed' = [parsed EXCEPT ![r] = Append(@, "action")]
  /\ LET body == req[r].body IN
       IF ~parseBody(req[r]).ok
       THEN Catches(r, parseBody(req[r]).error) /\ UNCHANGED metadata
       ELSE IF IsFalsyType(body)
       THEN Catches(r, Error(<<"Missing action type">>)) /\ UNCHANGED metadata
       ELSE IF ~HasAction(body.type)
       THEN Catches(r, Error(<<"Action ", body.type, " not found">>)) /\ UNCHANGED metadata
       ELSE /\ metadata' = [metadata EXCEPT ![r] = NewActionMetadataStore]
            /\ Invokes(r, ActionHandler(body.type))
  /\ UNCHANGED <<instance, client, logger, offered, req, ctx, acks, updates, sets, returned, escaped>>

\* the default branch of the switch
onOtherOperation(r) ==
  /\ pc[r] = "handleOperation"
  /\ ctx[r].operation \notin Operations
  /\ Catches(r, InvalidPayloadError(<<"Unknown operation ", ctx[r].operation>>))
  /\ UNCHANGED <<instance, client, logger, offered, entered, req, ctx, parsed, acks, updates, metadata, sets, returned, escaped>>

(***************************************************************************)
(* The awaited handler: what it may do while it runs, and how the flow     *)
(* continues when it settles.                                              *)
(***************************************************************************)
TagMappings == {"t1", "t2"}
\* an id the caller of ack may try to pass along with the tags
AckIdArguments == {Absent, "m9"}

IsMessageHandler(handler) == Len(handler) = 4 /\ handler[1] = "channels"
IsActionHandler(handler) == Len(handler) = 2 /\ handler[1] = "actions"

AckUpdate_Override(message, argument) ==
  [id |-> IF argument.id = Absent THEN message.id ELSE argument.id, tags |-> argument.tags]

\* the updateMessage call that ack issues: only tags is taken from the argument
AckUpdate(message, argument) == [id |-> message.id, tags |-> argument.tags]

\* the message handler invokes the ack callback
ack(r) ==
  /\ pc[r] = "handler"
  /\ IsMessageHandler(running[r])
  /\ Len(acks[r]) < MaxAcks
  /\ \E tags \in TagMappings : \E id \in AckIdArguments :
       LET argument == [tags |-> tags, id |-> id] IN
       /\ acks' = [acks EXCEPT ![r] = Append(@, argument)]
       /\ updates' = [updates EXCEPT ![r] = Append(@, AckUpdate(req[r].body, argument))]
  /\ UNCHANGED <<instance, client, logger, observed, offered, entered, pc, req, ctx, running, invoked, parsed, metadata, sets,
                 returned, caught, escaped, logs, result>>

\* the action handler sets a metadata entry
metadataSet(r) ==
  /\ pc[r] = "handler"
  /\ IsActionHandler(running[r])
  /\ Len(sets[r]) < MaxSets
  /\ \E key \in MetaKeys : \E value \in MetaValues :
       /\ metadata' = [metadata EXCEPT ![r] = StoreSet(@, key, value)]
       /\ sets' = [sets EXCEPT ![r] = Append(@, <<key, value>>)]
  /\ UNCHANGED <<instance, client, logger, observed, offered, entered, pc, req, ctx, running, invoked, parsed, acks, updates,
                 returned, caught, escaped, logs, result>>

ResponseHandlers == {<<"webhook">>, <<"createUser">>, <<"createConversation">>}

\* webhook, createUser, createConversation: the flow returns what the handler
\* resolved to
responseHandlerResolves(r) ==
  /\ pc[r] = "handler"
  /\ running[r] \in ResponseHandlers
  /\ \E response \in ReturnValues :
       /\ returned' = [returned EXCEPT ![r] = response]
       /\ Returns(r, Normalize(response))
  /\ UNCHANGED <<instance, client, logger, offered, entered, req, ctx, parsed, acks, updates, metadata, sets, escaped>>

VoidHandlers == {<<"register">>, <<"unregister">>}
DiscardedValues == {Undefined, [status |-> Num(201), body |-> TextBody]}

\* register, unregister, message handlers: the flow awaits the handler and
\* returns nothing
voidHandlerResolves_ReturnsValue(r) ==
  /\ pc[r] = "handler"
  /\ running[r] \in VoidHandlers \/ IsMessageHandler(running[r])
  /\ \E value \in DiscardedValues :
       /\ returned' = [returned EXCEPT ![r] = value]
       /\ Returns(r, Normalize(value))
  /\ UNCHANGED <<instance, client, logger, offered, entered, req, ctx, parsed, acks, updates, metadata, sets, escaped>>

voidHandlerResolves(r) ==
  /\ pc[r] = "handler"
  /\ running[r] \in VoidHandlers \/ IsMessageHandler(running[r])
  /\ \E value \in DiscardedValues :
       /\ returned' = [returned EXCEPT ![r] = value]
       /\ Returns(r, Normalize(Undefined))
  /\ UNCHANGED <<instance, client, logger, offered, entered, req, ctx, parsed, acks, updates, metadata, sets, escaped>>

ActionResponse_NoMeta(output, store) ==
  [status |-> Undefined, body |-> Stringify(output, EmptyEntries)]

\* the body of an action's response
ActionResponse(output, store) ==
  [status |-> Undefined, body |-> Stringify(output, StoreToJSON(store))]

\* action handlers: the output and the metadata are serialised into the body
actionHandlerResolves(r) ==
  /\ pc[r] = "handler"
  /\ IsActionHandler(running[r])
  /\ \E output \in OutputValues :
       /\ returned' = [returned EXCEPT ![r] = output]
       /\ IF StringifyThrows(output, StoreToJSON(metadata[r]))
          THEN Catches(r, Error(<<"Do not know how to serialize a BigInt">>))
          ELSE Returns(r, Normalize(ActionResponse(output, metadata[r])))
  /\ UNCHANGED <<instance, client, logger, offered, entered, req, ctx, parsed, acks, updates, metadata, sets, escaped>>

\* any awaited flow handler throws
handlerThrows(r) ==
  /\ pc[r] = "handler"
  /\ \E error \in HandlerErrors : Catches(r, error)
  /\ UNCHANGED <<instance, client, logger, offered, entered, req, ctx, parsed, acks, updates, metadata, sets, returned, escaped>>

\* the host runtime has consumed the outcome; everything of the request is dropped
Settled(r) == pc[r] \in {"returned", "rejected"}

Discard(r) ==
  /\ Settled(r)
  /\ pc' = [pc EXCEPT ![r] = "idle"]
  /\ req' = [req EXCEPT ![r] = NoRequest]
  /\ ctx' = [ctx EXCEPT ![r] = NoContext]
  /\ client' = [client EXCEPT ![r] = NoClient]
  /\ logger' = [logger EXCEPT ![r] = NoLogger]
  /\ observed' = [observed EXCEPT ![r] = {}]
  /\ running' = [running EXCEPT ![r] = NoHandler]
  /\ offered' = [offered EXCEPT ![r] = NoReturn]
  /\ entered' = [entered EXCEPT ![r] = <<>>]
  /\ invoked' = [invoked EXCEPT ![r] = <<>>]
  /\ parsed' = [parsed EXCEPT ![r] = <<>>]
  /\ acks' = [acks EXCEPT ![r] = <<>>]
  /\ updates' = [updates EXCEPT ![r] = <<>>]
  /\ metadata' = [metadata EXCEPT ![r] = NoStore]
  /\ sets' = [sets EXCEPT ![r] = <<>>]
  /\ returned' = [returned EXCEPT ![r] = NoReturn]
  /\ caught' = [caught EXCEPT ![r] = NoError]
  /\ escaped' = [escaped EXCEPT ![r] = NoError]
  /\ logs' = [logs EXCEPT ![r] = <<>>]
  /\ result' = [result EXCEPT ![r] = NoResult]
  /\ UNCHANGED instance

(***************************************************************************)
(* Specifications.                                                         *)
(***************************************************************************)
Step(r) ==
  \/ onUnknownOperationHandler(r)
  \/ onPing(r)
  \/ onWebhook(r)
  \/ onRegister(r)
  \/ onUnregister(r)
  \/ onCreateUser(r)
  \/ onCreateConversation(r)
  \/ onMessageCreated(r)
  \/ onActionTriggered(r)
  \/ onOtherOperation(r)
  \/ ack(r)
  \/ metadataSet(r)
  \/ responseHandlerResolves(r)
  \/ voidHandlerResolves(r)
  \/ actionHandlerResolves(r)
  \/ handlerThrows(r)
  \/ Discard(r)

\* the host runtime delivers one request at a time
Serial(r) == \A q \in Requests \ {r} : pc[q] = "idle"

Next == \E r \in Requests : (Serial(r) /\ integrationHandler(r)) \/ Step(r)

Spec == Init /\ [][Next]_vars

(***************************************************************************)
(* Two requests are in flight at once: the handlers are asynchronous, so a *)
(* second call of the entry point may start while the first one awaits.    *)
(* The two requests come from different bots and carry different traces.   *)
(***************************************************************************)
FullInstance ==
  [unknownOperationHandler |-> TRUE,
   register |-> TRUE,
   unregister |-> TRUE,
   createUser |-> TRUE,
   createConversation |-> TRUE,
   channels |-> [channel \in RegisteredChannels |-> RegisteredMessageTypes],
   actions |-> RegisteredActions]

Caller(r) ==
  IF r = "r1"
  THEN [botId |-> "bot1", integrationId |-> "int1",
        traceparent |-> <<"00", "t1", "s1", "01">>, tracestate |-> <<"v=1">>]
  ELSE [botId |-> "bot2", integrationId |-> "int2",
        traceparent |-> <<"00", "t2", "s2", "01">>, tracestate |-> <<"v=2">>]

ConcurrentOperations == {"action_triggered"}

ConcurrentHeaders(r) ==
  {[operation |-> operation, botId |-> Caller(r).botId, integrationId |-> Caller(r).integrationId,
    traceparent |-> Caller(r).traceparent, tracestate |-> Caller(r).tracestate] :
     operation \in ConcurrentOperations}

InitConcurrent == Init /\ instance = FullInstance

\* metadata writes of one action handler while another request is in flight
MaxConcurrentSets == 1

NextConcurrent ==
  \E r \in Requests :
    \/ Call(r, ConcurrentHeaders(r))
    \/ onUnknownOperationHandler(r)
    \/ onActionTriggered(r)
    \/ (Len(sets[r]) < MaxConcurrentSets /\ metadataSet(r))
    \/ actionHandlerResolves(r)
    \/ handlerThrows(r)
    \/ Discard(r)

SpecConcurrent == InitConcurrent /\ [][NextConcurrent]_vars

(***************************************************************************)
(* Requests with every combination of tracing headers: each allow-listed   *)
(* header and one header outside the allow-list is absent, empty, a single *)
(* field or a full trace context.                                          *)
(***************************************************************************)
InboundHeaderNames == {"traceparent", "tracestate", "sentry-trace", "authorization"}

InboundHeaderValues == {EmptyString, <<"x">>, <<"00", "t1", "s1", "01">>}

InboundHeaderMaps == UNION {[names -> InboundHeaderValues] : names \in SUBSET InboundHeaderNames}

TracedHeaders ==
  {[name \in {"operation", "botId", "integrationId"} \cup DOMAIN inbound |->
      CASE name = "operation" -> "ping"
        [] name = "botId" -> "bot1"
        [] name = "integrationId" -> "int1"
        [] OTHER -> inbound[name]] : inbound \in InboundHeaderMaps}

InitTracing == Init /\ instance = FullInstance

NextTracing ==
  \E r \in Requests :
    \/ (Serial(r) /\ Call(r, TracedHeaders))
    \/ onUnknownOperationHandler(r)
    \/ onPing(r)
    \/ Discard(r)

SpecTracing == InitTracing /\ [][NextTracing]_vars

(***************************************************************************)
(* Properties.                                                             *)
(***************************************************************************)
ContextExtracted(r) == ctx[r] # NoContext
FallbackResponded(r) == offered[r] \in HandlerResponses
FallbackIntervened(r) == FallbackResponded(r) \/ offered[r] = Threw

\* C1: a call of the entry point never lets an exception escape; every
\* failure, that of context extraction included, becomes an envelope.
C1_NeverRejects == \A r \in Requests : pc[r] # "rejected"

\* C2: a request whose context extraction succeeds enters at most one
\* operation flow and resolves to one envelope with a defined status; only a
\* resolved call has an envelope, and only a failed extraction rejects.
C2_OneEnvelope ==
  \A r \in Requests :
    /\ pc[r] = "rejected" => ~extractContext(req[r].headers).ok
    /\ ContextExtracted(r) => pc[r] # "rejected" /\ Len(entered[r]) <= 1
    /\ pc[r] = "returned" =>
         /\ result[r].status.t = "number"
         /\ (caught[r] = NoError) = (result[r].body.k # "error")
    /\ pc[r] # "returned" => result[r] = NoResult

C2_Witness ==
  \E r \in Requests :
    /\ pc[r] = "returned"
    /\ ctx[r].operation = "ping"
    /\ entered[r] = <<"ping">>
    /\ result[r] = [status |-> Num(200), body |-> NoBody]

\* C3: when the registered fallback returns a response, no operation flow is
\* entered, no body is parsed, no other handler is invoked, and the envelope
\* is the fallback's response (with 200 for an absent status).
C3_FallbackShortCircuits ==
  \A r \in Requests :
    FallbackResponded(r) =>
      /\ pc[r] = "returned"
      /\ entered[r] = <<>>
      /\ parsed[r] = <<>>
      /\ invoked[r] = <<(<<"unknownOperationHandler">>)>>
      /\ result[r].body = offered[r].body
      /\ result[r].status =
           IF offered[r].status \in {Undefined, Null} THEN Num(200) ELSE offered[r].status

C3_Witness ==
  \E r \in Requests :
    /\ FallbackResponded(r)
    /\ ctx[r].operation = "message_created"
    /\ req[r].body = MissingBody
    /\ result[r] = [status |-> Num(201), body |-> TextBody]

Fallback == <<"unknownOperationHandler">>
ValidPayload(r) == req[r].body.shape \notin {"missing", "malformed"}
IsClientError(status) == status.t = "number" /\ status.v \in 400..499
IsSuccess(status) == status.t = "number" /\ status.v \in 200..299

\* the envelope of the fixed generic runtime error
GenericEnvelope ==
  [status |-> Num(400),
   body |-> [k |-> "error", code |-> 400, type |-> "Runtime", message |-> GenericMessage]]

UnknownOperation(r) == ContextExtracted(r) /\ ctx[r].operation \notin Operations

\* C4 as stated: a request whose operation kind is outside the flow table
\* always resolves to a client-error envelope.
C4_UnknownAlwaysClientError ==
  \A r \in Requests :
    UnknownOperation(r) /\ pc[r] = "returned" => IsClientError(result[r].status)

\* C4 (amended): a request whose operation kind is outside the flow table
\* resolves to a client-error (4xx) error envelope, never rejects and never
\* succeeds, unless a registered fallback returned a response; no flow is
\* entered and no handler other than the fallback is invoked.
C4_UnknownOperation ==
  \A r \in Requests :
    UnknownOperation(r) /\ ~FallbackResponded(r) =>
      /\ pc[r] # "rejected"
      /\ entered[r] = <<>>
      /\ \A i \in 1..Len(invoked[r]) : invoked[r][i] = Fallback
      /\ pc[r] = "returned" =>
           /\ IsClientError(result[r].status)
           /\ ~IsSuccess(result[r].status)
           /\ result[r].body.k = "error"

C4_Witness ==
  \E r \in Requests :
    /\ pc[r] = "returned"
    /\ ctx[r].operation = "bogus"
    /\ offered[r] = Undefined
    /\ caught[r].message = <<"Unknown operation ", "bogus">>
    /\ result[r].status = Num(400)

\* the handler that the flow table and the nested tables give for a request
ExpectedHandler(r) ==
  LET operation == ctx[r].operation
      body == req[r].body IN
  CASE operation = "webhook_received" -> <<"webhook">>
    [] operation = "register" -> <<"register">>
    [] operation = "unregister" -> <<"unregister">>
    [] operation = "create_user" -> <<"createUser">>
    [] operation = "create_conversation" -> <<"createConversation">>
    [] operation = "message_created" -> <<"channels", body.channel, "messages", body.type>>
    [] operation = "action_triggered" -> <<"actions", body.type>>
    [] OTHER -> <<>>

HandlerRegistered(r) ==
  LET operation == ctx[r].operation
      body == req[r].body IN
  CASE operation = "webhook_received" -> TRUE
    [] operation = "register" -> instance.register
    [] operation = "unregister" -> instance.unregister
    [] operation = "create_user" -> instance.createUser
    [] operation = "create_conversation" -> instance.createConversation
    [] operation = "message_created" ->
         /\ body.channel \in DOMAIN instance.channels
         /\ body.type \in instance.channels[body.channel]
    [] operation = "action_triggered" ->
         body.hasType /\ body.type # "" /\ body.type \in instance.actions
    [] OTHER -> FALSE

Dispatchable(r) == ContextExtracted(r) /\ ValidPayload(r) /\ HandlerRegistered(r)

FlowHandlers(r) == SelectSeq(invoked[r], LAMBDA h : h # Fallback)
FallbackCalls(r) == SelectSeq(invoked[r], LAMBDA h : h = Fallback)

\* C5 as stated: a request with a valid payload invokes exactly the handler
\* registered for its kind, once, and no other registered handler.
C5_OnlyTheKindsHandler ==
  \A r \in Requests :
    Dispatchable(r) /\ pc[r] = "returned" => invoked[r] = <<ExpectedHandler(r)>>

\* C5 (amended): a request with a valid payload invokes the handler registered
\* for its kind exactly once and no other registered handler except the
\* fallback, which, when registered, is invoked once and first; when the
\* fallback returns a response or throws, the kind's handler is not invoked.
C5_HandlerOfTheKind ==
  \A r \in Requests :
    Dispatchable(r) =>
      /\ FallbackCalls(r) = IF instance.unknownOperationHandler THEN <<Fallback>> ELSE <<>>
      /\ instance.unknownOperationHandler => invoked[r][1] = Fallback
      /\ FlowHandlers(r) \in {<<>>, <<ExpectedHandler(r)>>}
      /\ pc[r] = "returned" =>
           FlowHandlers(r) = IF FallbackIntervened(r) THEN <<>> ELSE <<ExpectedHandler(r)>>

C5_Witness ==
  \E r \in Requests :
    /\ pc[r] = "returned"
    /\ ctx[r].operation = "message_created"
    /\ invoked[r] = <<Fallback, <<"channels", "c1", "messages", "text">>>>

\* C6: an error that is not a structured API error always gives the same
\* envelope, that of the fixed generic message, whatever its own message is;
\* the envelope's body never carries the original message.
C6_OpaqueErrorsDoNotLeak ==
  \A r \in Requests :
    pc[r] = "returned" /\ caught[r] # NoError /\ ~caught[r].isApiError =>
      /\ result[r] = GenericEnvelope
      /\ result[r].body.message # caught[r].message

C6_Witness ==
  \E r \in Requests :
    /\ pc[r] = "returned"
    /\ running[r] = NoHandler
    /\ invoked[r] = <<(<<"webhook">>)>>
    /\ caught[r] = Error(<<"secret two">>)

MessageRequest(r) ==
  ContextExtracted(r) /\ ctx[r].operation = "message_created" /\ ValidPayload(r)

ChannelMissing(r) == req[r].body.channel \notin DOMAIN instance.channels
MessageTypeMissing(r) ==
  /\ req[r].body.channel \in DOMAIN instance.channels
  /\ req[r].body.type \notin instance.channels[req[r].body.channel]

ChannelNotFound(r) == Error(<<"Channel ", req[r].body.channel, " not found">>)
MessageTypeNotFound(r) ==
  Error(<<"Message of type ", req[r].body.type, " not found in channel ", req[r].body.channel>>)

NoMessageHandlerInvoked(r) ==
  \A i \in 1..Len(invoked[r]) : invoked[r][i][1] # "channels"

\* C7 as stated: a message_created request whose channel, or whose message
\* type within the channel, is not registered resolves to the client-error
\* envelope of that failure.
C7_RoutingMissAlwaysFails ==
  \A r \in Requests :
    MessageRequest(r) /\ pc[r] = "returned" =>
      /\ ChannelMissing(r) => caught[r] = ChannelNotFound(r) /\ IsClientError(result[r].status)
      /\ MessageTypeMissing(r) =>
           caught[r] = MessageTypeNotFound(r) /\ IsClientError(result[r].status)

\* C7 (amended): unless a registered fallback returned a response or threw, a
\* message_created request whose channel is not registered fails with the
\* channel-not-found error, and one whose message type is not registered in
\* its channel with the message-type-not-found error; either resolves to the
\* client-error envelope.  In every case no message handler is invoked and
\* the client receives no updateMessage call.
C7_MessageRoutingMiss ==
  \A r \in Requests :
    MessageRequest(r) /\ (ChannelMissing(r) \/ MessageTypeMissing(r)) =>
      /\ NoMessageHandlerInvoked(r)
      /\ acks[r] = <<>>
      /\ updates[r] = <<>>
      /\ pc[r] = "returned" /\ ~FallbackIntervened(r) =>
           /\ caught[r] = IF ChannelMissing(r) THEN ChannelNotFound(r) ELSE MessageTypeNotFound(r)
           /\ IsClientError(result[r].status)
           /\ result[r] = GenericEnvelope

C7_Witness ==
  \E r \in Requests :
    /\ pc[r] = "returned"
    /\ MessageRequest(r)
    /\ DOMAIN instance.channels = {"c1"}
    /\ caught[r] = Error(<<"Message of type ", "image", " not found in channel ", "c1">>)
    /\ result[r].status = Num(400)

ActionRequest(r) ==
  ContextExtracted(r) /\ ctx[r].operation = "action_triggered" /\ ValidPayload(r)

TypeMissing(r) == ~req[r].body.hasType \/ req[r].body.type = ""

MissingActionType == Error(<<"Missing action type">>)

NoActionHandlerInvoked(r) ==
  \A i \in 1..Len(invoked[r]) : invoked[r][i][1] # "actions"

\* C8 as stated: an action_triggered request whose type is empty or absent
\* resolves to the envelope of the missing-action-type error.
C8_MissingTypeAlwaysFails ==
  \A r \in Requests :
    ActionRequest(r) /\ TypeMissing(r) /\ pc[r] = "returned" =>
      caught[r] = MissingActionType /\ result[r] = GenericEnvelope

\* C8 (amended): unless a registered fallback returned a response or threw, an
\* action_triggered request whose type is empty or absent resolves to the
\* envelope of the missing-action-type error.  In every case no action
\* handler is invoked and no metadata store is created, whatever the action
\* table holds.
C8_MissingActionType ==
  \A r \in Requests :
    ActionRequest(r) /\ TypeMissing(r) =>
      /\ NoActionHandlerInvoked(r)
      /\ ~metadata[r].created
      /\ pc[r] = "returned" /\ ~FallbackIntervened(r) =>
           caught[r] = MissingActionType /\ result[r] = GenericEnvelope

C8_Witness ==
  \E r \in Requests :
    /\ pc[r] = "returned"
    /\ ActionRequest(r)
    /\ req[r].body.hasType /\ req[r].body.type = ""
    /\ "" \in instance.actions
    /\ entered[r] = <<"action_triggered">>
    /\ caught[r] = MissingActionType

\* the entries a sequence of set calls leaves behind: the last write per key
LastWrites(calls) ==
  [key \in {calls[i][1] : i \in 1..Len(calls)} |->
     calls[CHOOSE i \in 1..Len(calls) :
             /\ calls[i][1] = key
             /\ \A j \in (i + 1)..Len(calls) : calls[j][1] # key][2]]

ActionResolved(r) ==
  /\ pc[r] = "returned"
  /\ ctx[r].operation = "action_triggered"
  /\ returned[r] # NoReturn

\* values that JSON.stringify followed by JSON.parse gives back unchanged
\* (an undefined output is left out and read back as undefined)
SurvivesJSON(value) == value.t \in {"number", "null", "undefined"}

DeserializesToResult(r) ==
  /\ result[r].status = Num(200)
  /\ result[r].body.k = "json"
  /\ Parse(result[r].body).output = returned[r]
  /\ Parse(result[r].body).meta = LastWrites(sets[r])

C10_AckUpdatesOwnMessage ==
  \A r \in Requests :
    /\ Len(updates[r]) = Len(acks[r])
    /\ \A i \in 1..Len(acks[r]) :
         updates[r][i] = [id |-> req[r].body.id, tags |-> acks[r][i].tags]

C10_Witness ==
  \E r \in Requests :
    /\ Len(acks[r]) = 2
    /\ acks[r][1].id = "m9"
    /\ acks[r][1].tags # acks[r][2].tags
    /\ req[r].body.id = "m2"
    /\ updates[r][1].id = "m2"

(***************************************************************************)
(* C11.  Concurrent requests with different tracing headers do not share   *)
(* per-request state: each request's client carries only that request's    *)
(* tracing headers, bot id and integration id, each logger only that       *)
(* request's trace id, and whatever interleaving the scheduler picks, the  *)
(* props every handler of a request is given (context, request, client,   *)
(* logger) are that request's own, as is its metadata store.               *)
(***************************************************************************)
TracingOf(headers) ==
  [header \in {x \in {"traceparent", "tracestate", "sentry-trace"} \cap DOMAIN headers :
                 headers[x] # <<"">>} |-> headers[header]]

OwnClient(r) ==
  [botId |-> req[r].headers.botId,
   integrationId |-> req[r].headers.integrationId,
   headers |-> TracingOf(req[r].headers)]

OwnLogger(r) == [traceId |-> req[r].headers.traceparent[2]]

OwnContext(r) ==
  [operation |-> req[r].headers.operation,
   botId |-> req[r].headers.botId,
   integrationId |-> req[r].headers.integrationId]

OwnMetadata(r) ==
  IF sets[r] = <<>>
  THEN metadata[r] \in {NoStore, NewActionMetadataStore}
  ELSE \A key \in MetaKeys :
         LET writes == SelectSeq(sets[r], LAMBDA w : w[1] = key) IN
         writes # <<>> => Get(metadata[r].entries, key) = writes[Len(writes)][2]

InFlight(r) == pc[r] \notin {"idle", "rejected"}

C11_RequestsAreIsolated ==
  \A r \in Requests :
    InFlight(r) =>
      /\ client[r] = OwnClient(r)
      /\ logger[r] = OwnLogger(r)
      /\ ctx[r] = OwnContext(r)
      /\ observed[r] \subseteq
           {[ctx |-> OwnContext(r), req |-> req[r], client |-> OwnClient(r), logger |-> OwnLogger(r)]}
      /\ invoked[r] # <<>> => observed[r] # {}
      /\ OwnMetadata(r)

\* both action handlers are running at once, each wrote its metadata, under different traces
C11_Witness ==
  /\ \A r \in Requests : pc[r] = "handler" /\ IsActionHandler(running[r]) /\ sets[r] # <<>>
  /\ client["r1"].headers # client["r2"].headers
  /\ logger["r1"] # logger["r2"]
  /\ sets["r1"] # sets["r2"]
  /\ Cardinality(observed["r1"] \cup observed["r2"]) = 2

(***************************************************************************)
(* C12.  When the fallback, the webhook handler, the createUser handler or *)
(* the createConversation handler returns a response, the envelope carries *)
(* the status the handler set, a status of 0 or a negative one included,   *)
(* and 200 only when the handler left the status undefined or null; every  *)
(* other field of the response is in the envelope unchanged.               *)
(***************************************************************************)
ResponseOperations == {"webhook_received", "create_user", "create_conversation"}

\* the response that a response-returning handler of the request produced
Responded(r) ==
  /\ pc[r] = "returned"
  /\ caught[r] = NoError
  /\ \/ FallbackResponded(r)
     \/ ctx[r].operation \in ResponseOperations /\ returned[r] \in HandlerResponses

ResponseOf(r) == IF FallbackResponded(r) THEN offered[r] ELSE returned[r]

C12_StatusDefaultsOnlyWhenNullish ==
  \A r \in Requests :
    Responded(r) =>
      LET response == ResponseOf(r) IN
      /\ DOMAIN result[r] = DOMAIN response
      /\ result[r].status = (IF response.status \in {Undefined, Null} THEN Num(200) ELSE response.status)
      /\ \A field \in DOMAIN response \ {"status"} : result[r][field] = response[field]

\* a createUser handler answered with status 0 and a body, and this is the envelope
C12_Witness ==
  \E r \in Requests :
    /\ Responded(r)
    /\ ctx[r].operation = "create_user"
    /\ ~FallbackResponded(r)
    /\ returned[r] = [status |-> Num(0), body |-> TextBody]
    /\ result[r] = [status |-> Num(0), body |-> TextBody]

(***************************************************************************)
(* C13.  A register, unregister, create_user or create_conversation        *)
(* request whose optional handler is not registered is silently skipped:   *)
(* the body is not parsed, no flow handler and no client call is made, and *)
(* the envelope is the empty success {status: 200} without a body, also    *)
(* when the body is missing or malformed.                                  *)
(***************************************************************************)
OptionalOperations == {"register", "unregister", "create_user", "create_conversation"}

Unhandled(r) ==
  /\ ContextExtracted(r)
  /\ ctx[r].operation \in OptionalOperations
  /\ ~HandlerRegistered(r)

Skipped(r) ==
  /\ parsed[r] = <<>>
  /\ FlowHandlers(r) = <<>>
  /\ acks[r] = <<>>
  /\ updates[r] = <<>>
  /\ pc[r] = "returned" => result[r] = [status |-> Num(200), body |-> NoBody] /\ caught[r] = NoError

\* as stated: whenever the fallback produced no response
C13_UnregisteredAlwaysSkipped ==
  \A r \in Requests : Unhandled(r) /\ ~FallbackResponded(r) => Skipped(r)

\* whenever the fallback neither produced a response nor threw
C13_UnregisteredSkipped ==
  \A r \in Requests : Unhandled(r) /\ ~FallbackIntervened(r) => Skipped(r)

\* an unhandled create_user request with a malformed body went through its flow to the empty success
C13_Witness ==
  \E r \in Requests :
    /\ Unhandled(r)
    /\ ~FallbackIntervened(r)
    /\ ctx[r].operation = "create_user"
    /\ req[r].body.shape = "malformed"
    /\ entered[r] = <<"create_user">>
    /\ pc[r] = "returned"
    /\ result[r] = [status |-> Num(200), body |-> NoBody]

(***************************************************************************)
(* C14.  A ping request succeeds with an empty body whatever its body and  *)
(* whatever handlers are registered: the envelope is {status: 200} without *)
(* a body, and no handler of a flow is invoked.                            *)
(***************************************************************************)
Ping(r) == ContextExtracted(r) /\ ctx[r].operation = "ping"

Pong(r) ==
  /\ FlowHandlers(r) = <<>>
  /\ pc[r] = "returned" =>
       /\ caught[r] = NoError
       /\ result[r] = [status |-> Num(200), body |-> NoBody]

\* as stated: for every registered handler set, the fallback included
C14_PingAlwaysSucceeds == \A r \in Requests : Ping(r) => Pong(r)

\* unless a registered fallback answers the ping itself or throws
C14_PingSucceeds == \A r \in Requests : Ping(r) /\ ~FallbackIntervened(r) => Pong(r)

\* a ping with a malformed body passed a fallback that returned nothing and succeeded
C14_Witness ==
  \E r \in Requests :
    /\ Ping(r)
    /\ req[r].body = MalformedBody
    /\ instance.unknownOperationHandler
    /\ offered[r] = Undefined
    /\ entered[r] = <<"ping">>
    /\ pc[r] = "returned"
    /\ result[r] = [status |-> Num(200), body |-> NoBody]

(***************************************************************************)
(* C15.  A structured API error that reaches the entry point: one of the   *)
(* runtime-error type passes through unchanged, the envelope's status is   *)
(* its own code and the body its serialised descriptor; any other one is   *)
(* wrapped in a runtime error with the same message, and the envelope's    *)
(* status and body are those of the wrapping error.  Either way the        *)
(* original message is in the body.                                        *)
(***************************************************************************)
CaughtApiError(r) == pc[r] = "returned" /\ caught[r].isApiError

Descriptor(code, type, message) ==
  [k |-> "error", code |-> code, type |-> type, message |-> message]

C15_ApiErrorEnvelope ==
  \A r \in Requests :
    CaughtApiError(r) =>
      LET error == caught[r] IN
      /\ error.type = "Runtime" =>
           result[r] = [status |-> Num(error.code),
                        body |-> Descriptor(error.code, "Runtime", error.message)]
      /\ error.type # "Runtime" =>
           result[r] = [status |-> Num(RuntimeErrorCode),
                        body |-> Descriptor(RuntimeErrorCode, "Runtime", error.message)]
      /\ result[r].body.message = error.message

\* a handler threw a Forbidden API error (403): the envelope is that of the wrapping runtime error
C15_Witness ==
  \E r \in Requests :
    /\ CaughtApiError(r)
    /\ caught[r] = [isApiError |-> TRUE, type |-> "Forbidden", code |-> 403, message |-> <<"secret one">>]
    /\ invoked[r] # <<>>
    /\ result[r].status = Num(400)
    /\ result[r].body.message = <<"secret one">>

(***************************************************************************)
(* C16.  The status of the envelope of an unclassified (non-structured)    *)
(* error, compared with the status of structured runtime errors and of     *)
(* routing misses (unknown operation, channel, message type or action not  *)
(* found, missing action type).                                            *)
(***************************************************************************)
IsServerError(status) == status.t = "number" /\ status.v \in 500..599

\* an error that is not a structured API error was caught
CaughtOpaque(r) == pc[r] = "returned" /\ caught[r] # NoError /\ ~caught[r].isApiError

\* a handler threw an error of its own that is not a structured API error
Unclassified(r) == pc[r] = "returned" /\ caught[r] \in OpaqueErrors

RoutingMiss(r) ==
  /\ pc[r] = "returned"
  /\ \/ UnknownOperation(r) /\ caught[r].type = "InvalidPayload"
     \/ MessageRequest(r) /\ caught[r] \in {ChannelNotFound(r), MessageTypeNotFound(r)}
     \/ ActionRequest(r) /\
          caught[r] \in {MissingActionType, Error(<<"Action ", req[r].body.type, " not found">>)}

\* as stated: an unclassified error gets a server-error status
C16_OpaqueIsServerError ==
  \A r \in Requests : Unclassified(r) => IsServerError(result[r].status)

\* an unclassified error gets the code of the generic runtime error, which is
\* a client-error status and the very status of routing misses and of
\* wrapped structured errors
C16_OpaqueIsRuntimeError ==
  \A r \in Requests :
    /\ CaughtOpaque(r) =>
         result[r].status = Num(RuntimeErrorCode) /\ IsClientError(result[r].status)
    /\ RoutingMiss(r) => result[r].status = Num(RuntimeErrorCode)
    /\ CaughtApiError(r) /\ caught[r].type # "Runtime" => result[r].status = Num(RuntimeErrorCode)

\* an action handler threw a plain error and the envelope has status 400
C16_Witness ==
  \E r \in Requests :
    /\ Unclassified(r)
    /\ ActionRequest(r)
    /\ FlowHandlers(r) = <<<<"actions", "a1">>>>
    /\ result[r].status = Num(400)

(***************************************************************************)
(* C17.  A request that ends in an error envelope has made exactly one     *)
(* error-severity write to the bot-scoped logger, not later than the       *)
(* envelope is returned, and the text written is the message in the        *)
(* envelope, never the original message of an opaque error; a request that *)
(* ends in a success envelope has no error write of the dispatcher.        *)
(***************************************************************************)
EndsInError(r) == pc[r] = "returned" /\ caught[r] # NoError
EndsInSuccess(r) == pc[r] = "returned" /\ caught[r] = NoError

C17_OneErrorWrite ==
  \A r \in Requests :
    /\ EndsInError(r) =>
         /\ result[r].body.k = "error"
         /\ logs[r] = <<result[r].body.message>>
         /\ ~caught[r].isApiError => logs[r][1] # caught[r].message
    /\ EndsInSuccess(r) => logs[r] = <<>> /\ result[r].body.k # "error"
    /\ pc[r] # "returned" => logs[r] = <<>>

\* a handler threw an opaque error: one write, of the generic message, the one in the envelope
C17_Witness ==
  \E r \in Requests :
    /\ EndsInError(r)
    /\ caught[r] = Error(<<"secret one">>)
    /\ logs[r] = <<GenericMessage>>
    /\ result[r].body.message = GenericMessage

(***************************************************************************)
(* C18.  A registered unknownOperationHandler is invoked exactly once for  *)
(* every request the dispatcher routes, whatever its operation kind, and   *)
(* before any flow parses the body or invokes a handler.  When it returns  *)
(* nothing or a falsy value, the flow of the operation starts from the     *)
(* state it starts from without a fallback; when it throws, no flow is     *)
(* entered and the error is normalised into an error envelope.             *)
(***************************************************************************)
\* nothing of a flow has happened yet for the request
FlowUntouched(r) ==
  /\ entered[r] = <<>>
  /\ parsed[r] = <<>>
  /\ FlowHandlers(r) = <<>>
  /\ acks[r] = <<>>
  /\ updates[r] = <<>>
  /\ metadata[r] = NoStore
  /\ sets[r] = <<>>
  /\ returned[r] = NoReturn

\* the state in which handleOperation is called
AtFlowEntry(r) ==
  /\ FlowUntouched(r)
  /\ caught[r] = NoError
  /\ logs[r] = <<>>
  /\ result[r] = NoResult

C18_FallbackOfferedFirst ==
  \A r \in Requests :
    /\ ContextExtracted(r) =>
         /\ FallbackCalls(r) = IF instance.unknownOperationHandler THEN <<Fallback>> ELSE <<>>
         /\ instance.unknownOperationHandler => invoked[r][1] = Fallback
    /\ pc[r] = "unknownOperationHandler" => AtFlowEntry(r) /\ offered[r] = NoReturn
    /\ pc[r] = "handleOperation" =>
         /\ AtFlowEntry(r)
         /\ running[r] = NoHandler
         /\ offered[r] \in (IF instance.unknownOperationHandler THEN {Undefined, Null} ELSE {NoReturn})
    /\ entered[r] # <<>> =>
         offered[r] \in (IF instance.unknownOperationHandler THEN {Undefined, Null} ELSE {NoReturn})
    /\ offered[r] = Threw =>
         /\ pc[r] = "returned"
         /\ FlowUntouched(r)
         /\ caught[r] \in HandlerErrors
         /\ result[r].body.k = "error"
         /\ result[r].body.type = "Runtime"
         /\ result[r].status = Num(result[r].body.code)
         /\ result[r].body.message =
              IF caught[r].isApiError THEN caught[r].message ELSE GenericMessage

\* the fallback returned null for a create_user request, whose flow then ran its handler
C18_Witness ==
  \E r \in Requests :
    /\ instance.unknownOperationHandler
    /\ offered[r] = Null
    /\ ctx[r].operation = "create_user"
    /\ invoked[r] = <<Fallback, <<"createUser">>>>
    /\ pc[r] = "returned"

(***************************************************************************)
(* C19.  The tracing headers given to the client of a request are exactly  *)
(* the inbound headers whose key is traceparent, tracestate or             *)
(* sentry-trace and whose value is not empty, with their values unchanged: *)
(* no other inbound header is forwarded, an absent or empty allow-listed   *)
(* header is omitted, and the inbound headers stay as they were received.  *)
(***************************************************************************)
AllowList == {"traceparent", "tracestate", "sentry-trace"}

Forwarded(r) == client[r].headers

ForwardsExactlyTheAllowList(r) ==
  LET inbound == req[r].headers IN
  /\ DOMAIN Forwarded(r) \subseteq AllowList
  /\ \A key \in AllowList :
       IF key \in DOMAIN inbound /\ inbound[key] # <<"">>
       THEN key \in DOMAIN Forwarded(r) /\ Forwarded(r)[key] = inbound[key]
       ELSE key \notin DOMAIN Forwarded(r)

InboundUntouched(r) == InFlight(r) /\ pc'[r] # "idle" => req'[r] = req[r]

C19_TracingHeadersForwarded ==
  /\ [](\A r \in Requests : InFlight(r) => ForwardsExactlyTheAllowList(r))
  /\ [][\A r \in Requests : InboundUntouched(r)]_vars

\* traceparent is forwarded; the empty tracestate, the absent sentry-trace and authorization are not
C19_Witness ==
  \E r \in Requests :
    /\ pc[r] = "returned"
    /\ DOMAIN req[r].headers =
         {"operation", "botId", "integrationId", "traceparent", "tracestate", "authorization"}
    /\ req[r].headers["traceparent"] = <<"00", "t1", "s1", "01">>
    /\ req[r].headers["tracestate"] = <<"">>
    /\ req[r].headers["authorization"] = <<"x">>
    /\ DOMAIN client[r].headers = {"traceparent"}
    /\ client[r].headers["traceparent"] = <<"00", "t1", "s1", "01">>
    /\ logger[r].traceId = "t1"

(***************************************************************************)
(* C20.  Whatever the register, unregister or message handler returns is   *)
(* discarded: when it completes without throwing, and no fallback produced *)
(* a response, the envelope is exactly {status: 200} without a body; only  *)
(* a thrown error changes the outcome.                                     *)
(***************************************************************************)
VoidOperations == {"register", "unregister", "message_created"}

\* the handler of a register, unregister or message_created request settled with a value
VoidHandlerCompleted(r) ==
  /\ pc[r] = "returned"
  /\ ContextExtracted(r)
  /\ ctx[r].operation \in VoidOperations
  /\ ~FallbackResponded(r)
  /\ returned[r] # NoReturn

C20_ReturnValueDiscarded ==
  \A r \in Requests :
    /\ VoidHandlerCompleted(r) =>
         /\ caught[r] = NoError
         /\ result[r] = [status |-> Num(200), body |-> NoBody]
    /\ ( /\ pc[r] = "returned"
         /\ ContextExtracted(r)
         /\ ctx[r].operation \in VoidOperations
         /\ ~FallbackResponded(r)
         /\ result[r] # [status |-> Num(200), body |-> NoBody] ) =>
           caught[r] # NoError /\ result[r].body.k = "error"

\* a message handler returned {status: 201, body}; the envelope is still the bare {status: 200}
C20_Witness ==
  \E r \in Requests :
    /\ VoidHandlerCompleted(r)
    /\ ctx[r].operation = "message_created"
    /\ returned[r] = [status |-> Num(201), body |-> TextBody]
    /\ result[r] = [status |-> Num(200), body |-> NoBody]

====
